---- MODULE Spec2Model ----
(***************************************************************************)
(* Model of pitr.go: the PITR orchestrator (PITR.Process), the schema      *)
(* history resolver (fetchDDLBeforeStartTSO, LoadBaseSchema,               *)
(* loadHistoryDDLJobs, createTiStore, getSnapshotMeta) and the DDL         *)
(* execution handler (historyDDLHandler.execute).                          *)
(*                                                                         *)
(* Process is a sequential procedure; pc is its position.  Every call of   *)
(* a collaborator (searchFiles, filterFiles, the store, the merge engine,  *)
(* ddlHandle) is one step whose outcome the environment chooses.           *)
(***************************************************************************)
EXTENDS Integers, Sequences, FiniteSets, TLC

\* ---------------------------------------------------------------- bounds
MaxTS == 2
MaxShards == 2
MaxJobs == 2
MaxRunJobs == 1
MaxVer == 2
MaxContentLen == 2

TS == 0..MaxTS
Shards == 1..MaxShards
Versions == 1..MaxVer

SeqsUpTo(S, n) == UNION {[1..k -> S] : k \in 0..n}
Range(s) == {s[i] : i \in 1..Len(s)}

\* ---------------------------------------------------------------- errors
\* An error is the chain of its messages, outermost first; Nil is <<>>.
Nil == <<>>

\* errors.Annotate and errors.Trace pass a nil error through: line 206
\* annotates the result of loadHistoryDDLJobs and line 208 traces it also
\* when it is nil, and fetchDDLBeforeStartTSO succeeds then.
Annotate(e, msg) == IF e = Nil THEN Nil ELSE <<msg>> \o e
Trace(e) == e

\* ---------------------------------------------------------------- config
SchemaFiles == {"", "schema.sql"}
PDURLsValues == {"", "pd:2379", "%bad"}
\* StopTSO 0 is no upper end; a start may lie below, at or above a StopTSO of 1
StopTSOs == {0, 1}
Configs == [StartTSO : TS, StopTSO : StopTSOs, schemaFile : SchemaFiles,
            PDURLs : PDURLsValues, reserveTempDir : BOOLEAN]

\* ---------------------------------------------------------------- shards
\* searchFiles returns the shard files of the directory in name order.
IsAscending(s) == \A i \in 1..Len(s) - 1 : s[i] < s[i + 1]
FileLists == {s \in SeqsUpTo(Shards, MaxShards) : IsAscending(s)}
IsSubSeq(s, t) == IsAscending(s) /\ Range(s) \subseteq Range(t)

\* ---------------------------------------------------------------- schema file
Alphabet == {"a", "x", "\n"}
Contents == SeqsUpTo(Alphabet, MaxContentLen)

\* strings.Split(content, "\n"): the pieces between the separators; a content
\* without separator is one piece, also when it is empty.
RECURSIVE Split(_)
Split(s) ==
  IF \A i \in 1..Len(s) : s[i] # "\n"
  THEN <<s>>
  ELSE LET i == CHOOSE k \in 1..Len(s) :
                   s[k] = "\n" /\ \A j \in 1..k - 1 : s[j] # "\n"
       IN  <<SubSeq(s, 1, i - 1)>> \o Split(SubSeq(s, i + 1, Len(s)))

\* ---------------------------------------------------------------- schema jobs
\* model.Job: ID, BinlogInfo.SchemaVersion, BinlogInfo.FinishedTS, Query.
\* FinishedTS is a TSO; TSOs are below 2^63, where int64(FinishedTS) on line
\* 160 keeps the value.
Queries == {"ok", "bad"}
JobData == [SchemaVersion : Versions, FinishedTS : TS, Query : Queries]

\* GetAllHistoryDDLJobs enumerates by job id (line 152): the i-th job has ID i.
JobLists(n) ==
  {[i \in 1..Len(d) |-> [ID |-> i, SchemaVersion |-> d[i].SchemaVersion,
                         FinishedTS |-> d[i].FinishedTS, Query |-> d[i].Query]]
     : d \in SeqsUpTo(JobData, n)}

\* the less function of sort.Slice, lines 153-155
lessByID(a, b) == a.ID < b.ID
less(a, b) == a.SchemaVersion < b.SchemaVersion

\* sort.Slice is not stable: any permutation in which no element is less
\* than one before it may result.
SortSlice(s) ==
  LET n == Len(s)
      perms == {p \in [1..n -> 1..n] : \A i, j \in 1..n : i # j => p[i] # p[j]}
  IN  {[i \in 1..n |-> s[p[i]]] : p \in {q \in perms :
         \A i, j \in 1..n : i < j => ~less(s[q[j]], s[q[i]])}}

\* the condition of line 160
keepAtOrBefore(job, beginTS) == job.FinishedTS <= beginTS
keep(job, beginTS) == job.FinishedTS < beginTS

\* the loop of lines 158-165
RECURSIVE filterJobs(_, _)
filterJobs(all, beginTS) ==
  IF all = <<>> THEN <<>>
  ELSE (IF keep(Head(all), beginTS) THEN <<Head(all)>> ELSE <<>>)
         \o filterJobs(Tail(all), beginTS)

\* ---------------------------------------------------------------- ddlHandle
\* The schema catalog behind the package's ddlHandle: the statements and the
\* jobs applied so far.
EmptyCatalog == [sqls |-> {}, jobs |-> {}]

SQLCall(schema, ddl) == [op |-> "ExecuteDDL", schema |-> schema, sql |-> ddl, jobs |-> <<>>]
JobsCall(js) == [op |-> "ExecuteHistoryDDLs", schema |-> "", sql |-> <<>>, jobs |-> js]

\* A variant in which applying a statement again is refused.
ExecuteDDLNoReapply(schema, ddl, cat) ==
  IF "x" \in Range(ddl) \/ ddl \in cat.sqls
  THEN [err |-> <<"execute ddl failed">>, catalog |-> cat]
  ELSE [err |-> Nil, catalog |-> [cat EXCEPT !.sqls = @ \cup {ddl}]]

\* ddlHandle.ExecuteDDL(schema, ddl): a statement that is not valid SQL (one
\* holding "x") fails and changes nothing; a valid one is applied, and
\* applying a statement again leaves the catalog as it is.
ExecuteDDL(schema, ddl, cat) ==
  IF "x" \in Range(ddl)
  THEN [err |-> <<"execute ddl failed">>, catalog |-> cat]
  ELSE [err |-> Nil, catalog |-> [cat EXCEPT !.sqls = @ \cup {ddl}]]

\* ddlHandle.ExecuteHistoryDDLs(jobs): the jobs are applied in list order up
\* to the first one whose query fails.
RECURSIVE ExecuteHistoryDDLs(_, _)
ExecuteHistoryDDLs(js, cat) ==
  IF js = <<>> THEN [err |-> Nil, catalog |-> cat]
  ELSE IF Head(js).Query = "bad"
       THEN [err |-> <<"execute history ddls failed">>, catalog |-> cat]
       ELSE ExecuteHistoryDDLs(Tail(js), [cat EXCEPT !.jobs = @ \cup {Head(js)}])

\* ---------------------------------------------------------------- execute
EmptyHandler == [ddlSQLs |-> <<>>, ddlJobs |-> <<>>]

\* A variant of the loop that goes on after a failing statement and returns
\* the first error at the end.
RECURSIVE executeSQLsContinue(_, _)
executeSQLsContinue(ddls, r) ==
  IF ddls = <<>> THEN r
  ELSE LET x == ExecuteDDL("", Head(ddls), r.catalog)
       IN  executeSQLsContinue(Tail(ddls),
             [err |-> IF r.err # Nil THEN r.err ELSE x.err, catalog |-> x.catalog,
              log |-> Append(r.log, SQLCall("", Head(ddls)))])

\* the loop of lines 34-39: r is the result so far
RECURSIVE executeSQLs(_, _)
executeSQLs(ddls, r) ==
  IF ddls = <<>> THEN r
  ELSE LET x == ExecuteDDL("", Head(ddls), r.catalog)
           r1 == [err |-> x.err, catalog |-> x.catalog,
                  log |-> Append(r.log, SQLCall("", Head(ddls)))]
       IN  IF x.err # Nil THEN r1 ELSE executeSQLs(Tail(ddls), r1)

\* A variant that calls ExecuteHistoryDDLs once more when it has failed.
executeWithRetry(h, cat) ==
  IF Len(h.ddlJobs) # 0
  THEN LET x == ExecuteHistoryDDLs(h.ddlJobs, cat)
       IN  [err |-> x.err, catalog |-> x.catalog,
            log |-> IF x.err # Nil THEN <<JobsCall(h.ddlJobs), JobsCall(h.ddlJobs)>>
                    ELSE <<JobsCall(h.ddlJobs)>>]
  ELSE executeSQLs(h.ddlSQLs, [err |-> Nil, catalog |-> cat, log |-> <<>>])

\* historyDDLHandler.execute, lines 30-41: the error returned, the catalog
\* left behind and the calls made on ddlHandle.
execute(h, cat) ==
  IF Len(h.ddlJobs) # 0
  THEN LET x == ExecuteHistoryDDLs(h.ddlJobs, cat)
       IN  [err |-> x.err, catalog |-> x.catalog, log |-> <<JobsCall(h.ddlJobs)>>]
  ELSE executeSQLs(h.ddlSQLs, [err |-> Nil, catalog |-> cat, log |-> <<>>])

\* ---------------------------------------------------------------- state
VARIABLES
  mode,         \* "process": a run of Process; "resolver": loadHistoryDDLJobs alone
  cfg,          \* r.cfg
  pc,           \* the position of the run
  files,        \* files of Process
  fileSize,     \* fileSize of Process
  startTSO,     \* startTSO of Process
  beginTS,      \* the argument of fetchDDLBeforeStartTSO and loadHistoryDDLJobs
  historyDDLs,  \* the historyDDLHandler
  err,          \* the error Process returns (meaningful once pc = "done")
  merge,        \* the Merge: "none", "open" or "closed"
  drivers,      \* the drivers registered in package store (process-wide)
  tiStore,      \* the kv.Storage of loadHistoryDDLJobs: "none", "open" or "closed"
  allJobs,      \* allJobs of loadHistoryDDLJobs
  jobs,         \* the jobs loadHistoryDDLJobs returns
  loadErr,      \* the error of the schema history source
  catalog,      \* the schema catalog behind ddlHandle
  schemaContent,\* history: the content ioutil.ReadFile gave for the schema file
  trace,        \* history: the collaborator calls made, in order, with their errors
  ddlLog,       \* history: the calls made on ddlHandle, in order
  execResults,  \* history: error, catalog after and ddlHandle calls of each call of execute
  other,        \* a second run of loadHistoryDDLJobs in the same process, if any
  check         \* a binlog and a window put to isAcceptableBinlog, and its answer

vars == <<mode, cfg, pc, files, fileSize, startTSO, beginTS, historyDDLs, err,
          merge, drivers, tiStore, allJobs, jobs, loadErr, catalog, schemaContent,
          trace, ddlLog, execResults, other, check>>

\* a call: its name, up to two arguments, what it returned (for searchFiles
\* and filterFiles: 1 if any file, else 0) and its error
Call(op, a, b, ret, e) == [op |-> op, a |-> a, b |-> b, ret |-> ret, err |-> e]
Bit(b) == IF b THEN 1 ELSE 0

\* ---------------------------------------------------------------- outcomes
\* What the collaborators may answer.
IOErr == <<"io error">>
SearchResults ==
  {[err |-> IOErr, files |-> <<>>]} \cup {[err |-> Nil, files |-> f] : f \in FileLists}
\* no timestamp lies in the window: both ends are set and the start is later
WindowEmpty(s, t) == s # 0 /\ t # 0 /\ s > t
\* A variant of filterFiles that keeps files whatever the window.
FilterResultsAnyWindow(fs, s, t) ==
  {[err |-> IOErr, files |-> <<>>, fileSize |-> 0]}
    \cup {[err |-> Nil, files |-> f, fileSize |-> Len(f)] :
            f \in {g \in FileLists : IsSubSeq(g, fs)}}
\* filterFiles keeps, in order, the files that intersect the window [s, t]
\* (t = 0: no upper end): some of the files, and none when the window is
\* empty. Every shard has unit size.
FilterResults(fs, s, t) ==
  {[err |-> IOErr, files |-> <<>>, fileSize |-> 0]}
    \cup {[err |-> Nil, files |-> f, fileSize |-> Len(f)] :
            f \in {g \in FileLists : IsSubSeq(g, fs) /\ (WindowEmpty(s, t) => g = <<>>)}}
\* The first commit timestamp of the first file filterFiles kept for the
\* window [0, t]: the file intersects the window, so its first event is not
\* later than a stop that is set.
FirstBinlogResults(t) ==
  {[err |-> IOErr, commitTS |-> 0]}
    \cup {[err |-> Nil, commitTS |-> ts] : ts \in {x \in TS : t = 0 \/ x <= t}}
ReadFileResults ==
  {[err |-> IOErr, content |-> <<>>]} \cup {[err |-> Nil, content |-> c] : c \in Contents}
MapResults ==
  {[err |-> <<"map failed">>, noEventIsFound |-> FALSE],
   [err |-> Nil, noEventIsFound |-> TRUE],
   [err |-> Nil, noEventIsFound |-> FALSE]}
CallErrs == {Nil, IOErr}
ReduceErrs == {Nil, <<"reduce failed">>}
CloseErrs == {Nil, <<"close failed">>}
\* the schema jobs of the snapshot: up to MaxJobs of them when the resolver is
\* run alone, up to MaxRunJobs in a run of Process
SnapshotJobLists == JobLists(IF mode = "resolver" THEN MaxJobs ELSE MaxRunJobs)

\* ---------------------------------------------------------------- Process
\* A return statement of Process: the deferred merge.Close of line 96 runs
\* first when it has been registered.
afterReturnNoDefer(deferred) == "done"
afterReturnAlways(deferred) == "deferClose"
afterReturn(deferred) == IF deferred THEN "deferClose" ELSE "done"

Return(e) == err' = e /\ pc' = afterReturn(merge # "none")

\* lines 64-70
SearchFiles ==
  /\ pc = "searchFiles"
  /\ \E r \in SearchResults :
       /\ trace' = Append(trace, Call("searchFiles", 0, 0, Bit(r.files # <<>>), r.err))
       /\ files' = r.files
       /\ IF r.err # Nil
          THEN Return(Annotate(r.err, "search files in directory failed"))
          ELSE IF Len(r.files) = 0
               THEN Return(Annotate(r.err, "no file is searched in directory"))
               ELSE pc' = "filterFiles" /\ UNCHANGED err
  /\ UNCHANGED <<other, check, schemaContent, mode, cfg, fileSize, startTSO, beginTS, historyDDLs, merge, drivers,
                 tiStore, allJobs, jobs, loadErr, catalog, ddlLog, execResults>>

\* lines 72-78
FilterFiles ==
  /\ pc = "filterFiles"
  /\ \E r \in FilterResults(files, cfg.StartTSO, cfg.StopTSO) :
       /\ trace' = Append(trace, Call("filterFiles", cfg.StartTSO, cfg.StopTSO, Bit(r.files # <<>>), r.err))
       /\ files' = r.files
       /\ fileSize' = r.fileSize
       /\ IF r.err # Nil
          THEN Return(Annotate(r.err, "filterFiles failed"))
          ELSE IF Len(r.files) = 0
               THEN Return(Annotate(r.err, "no files remained between the time interval"))
               ELSE pc' = "resolveStart" /\ UNCHANGED err
  /\ UNCHANGED <<other, check, schemaContent, mode, cfg, startTSO, beginTS, historyDDLs, merge, drivers,
                 tiStore, allJobs, jobs, loadErr, catalog, ddlLog, execResults>>

\* files[0] of line 82
firstFile(fs) == fs[1]

\* lines 80-86
ResolveStart ==
  /\ pc = "resolveStart"
  /\ IF cfg.StartTSO = 0
     THEN \E r \in FirstBinlogResults(cfg.StopTSO) :
            /\ trace' = Append(trace,
                 Call("getFirstBinlogCommitTSAndFileSize", firstFile(files), 0, r.commitTS, r.err))
            /\ startTSO' = r.commitTS
            /\ IF r.err # Nil
               THEN Return(Annotate(r.err, "get first binlog commit ts failed"))
               ELSE pc' = "fetchDDL" /\ UNCHANGED err
     ELSE /\ startTSO' = cfg.StartTSO
          /\ pc' = "fetchDDL"
          /\ UNCHANGED <<trace, err>>
  /\ UNCHANGED <<other, check, schemaContent, mode, cfg, files, fileSize, beginTS, historyDDLs, merge, drivers,
                 tiStore, allJobs, jobs, loadErr, catalog, ddlLog, execResults>>

\* ---------------------------------------------------------------- resolver
\* the switch of lines 201-207: the first case that matches
sourceStoreFirst(c) ==
  IF c.PDURLs # "" THEN "jobs" ELSE IF c.schemaFile # "" THEN "file" ELSE "none"
sourceDefaultFile(c) ==
  IF c.schemaFile # "" THEN "file" ELSE IF c.PDURLs # "" THEN "jobs" ELSE "file"
source(c) ==
  IF c.schemaFile # "" THEN "file" ELSE IF c.PDURLs # "" THEN "jobs" ELSE "none"

\* the start passed on line 88
fetchArgConfigured(c, start) == c.StartTSO
fetchArg(c, start) == start

\* line 88 and the switch of fetchDDLBeforeStartTSO
FetchDDL ==
  /\ pc = "fetchDDL"
  /\ beginTS' = fetchArg(cfg, startTSO)
  /\ historyDDLs' = EmptyHandler
  /\ loadErr' = Nil
  /\ pc' = CASE source(cfg) = "file" -> "loadBaseSchema"
             [] source(cfg) = "jobs" -> "createTiStore"
             [] OTHER -> "fetchReturn"
  /\ trace' = Append(trace, Call("fetchDDLBeforeStartTSO", fetchArg(cfg, startTSO), 0, 0, Nil))
  /\ UNCHANGED <<other, check, schemaContent, mode, cfg, files, fileSize, startTSO, err, merge, drivers, tiStore,
                 allJobs, jobs, catalog, ddlLog, execResults>>

\* lines 119-127 and line 203
LoadBaseSchema ==
  /\ pc = "loadBaseSchema"
  /\ \E r \in ReadFileResults :
       /\ trace' = Append(trace, Call("ReadFile", 0, 0, Len(r.content), r.err))
       /\ historyDDLs' = [historyDDLs EXCEPT
            !.ddlSQLs = IF r.err # Nil THEN <<>> ELSE Split(r.content)]
       /\ loadErr' = r.err
       /\ schemaContent' = r.content
  /\ pc' = "fetchReturn"
  /\ UNCHANGED <<other, check, mode, cfg, files, fileSize, startTSO, beginTS, err, merge, drivers,
                 tiStore, allJobs, jobs, catalog, ddlLog, execResults>>

\* createTiStore, lines 171-174: flags.NewURLsValue refuses a malformed list
ParseURLs ==
  /\ pc = "createTiStore"
  /\ LET e == IF cfg.PDURLs = "%bad" THEN <<"invalid url">> ELSE Nil
     IN  /\ trace' = Append(trace, Call("NewURLsValue", 0, 0, 0, e))
         /\ IF e # Nil
            THEN loadErr' = Trace(Trace(e)) /\ pc' = "loadReturn"
            ELSE pc' = "register" /\ UNCHANGED loadErr
  /\ UNCHANGED <<other, check, schemaContent, mode, cfg, files, fileSize, startTSO, beginTS, historyDDLs, err, merge,
                 drivers, tiStore, allJobs, jobs, catalog, ddlLog, execResults>>

\* store.Register refuses a name that is already registered (line 176)
registerErr(drv) == IF "tikv" \in drv THEN <<"tikv is already registered">> ELSE Nil
\* store.New finds the driver by the scheme of the path (line 180): it fails
\* when no "tikv" driver is registered, and may fail for reasons of its own
storeNewErrs(drv) == IF "tikv" \in drv THEN CallErrs ELSE {<<"tikv is not registered">>}

\* createTiStore, lines 176-178: store.Register refuses a name already registered
RegisterDriver ==
  /\ pc = "register"
  /\ LET e == registerErr(drivers)
     IN  /\ trace' = Append(trace, Call("Register", 0, 0, 0, e))
         /\ IF e # Nil
            THEN loadErr' = Trace(Trace(e)) /\ pc' = "loadReturn" /\ UNCHANGED drivers
            ELSE drivers' = drivers \cup {"tikv"} /\ pc' = "storeNew" /\ UNCHANGED loadErr
  /\ UNCHANGED <<other, check, schemaContent, mode, cfg, files, fileSize, startTSO, beginTS, historyDDLs, err, merge,
                 tiStore, allJobs, jobs, catalog, ddlLog, execResults>>

\* createTiStore, lines 179-185, and lines 134-141: the defer is registered
\* only once createTiStore has succeeded
StoreNew ==
  /\ pc = "storeNew"
  /\ \E e \in storeNewErrs(drivers) :
       /\ trace' = Append(trace, Call("store.New", 0, 0, 0, e))
       /\ IF e # Nil
          THEN loadErr' = Trace(Trace(e)) /\ pc' = "loadReturn" /\ UNCHANGED tiStore
          ELSE tiStore' = "open" /\ pc' = "currentVersion" /\ UNCHANGED loadErr
  /\ UNCHANGED <<other, check, schemaContent, mode, cfg, files, fileSize, startTSO, beginTS, historyDDLs, err, merge,
                 drivers, allJobs, jobs, catalog, ddlLog, execResults>>

\* getSnapshotMeta, lines 189-192, and lines 143-146
CurrentVersion ==
  /\ pc = "currentVersion"
  /\ \E e \in CallErrs :
       /\ trace' = Append(trace, Call("CurrentVersion", 0, 0, 0, e))
       /\ IF e # Nil
          THEN loadErr' = Trace(Trace(e)) /\ pc' = "deferStore"
          ELSE pc' = "getSnapshot" /\ UNCHANGED loadErr
  /\ UNCHANGED <<other, check, schemaContent, mode, cfg, files, fileSize, startTSO, beginTS, historyDDLs, err, merge,
                 drivers, tiStore, allJobs, jobs, catalog, ddlLog, execResults>>

\* getSnapshotMeta, lines 193-197, and lines 143-146
GetSnapshot ==
  /\ pc = "getSnapshot"
  /\ \E e \in CallErrs :
       /\ trace' = Append(trace, Call("GetSnapshot", 0, 0, 0, e))
       /\ IF e # Nil
          THEN loadErr' = Trace(Trace(e)) /\ pc' = "deferStore"
          ELSE pc' = "getAllJobs" /\ UNCHANGED loadErr
  /\ UNCHANGED <<other, check, schemaContent, mode, cfg, files, fileSize, startTSO, beginTS, historyDDLs, err, merge,
                 drivers, tiStore, allJobs, jobs, catalog, ddlLog, execResults>>

\* lines 147-150
GetAllHistoryDDLJobs ==
  /\ pc = "getAllJobs"
  /\ \/ /\ trace' = Append(trace, Call("GetAllHistoryDDLJobs", 0, 0, 0, IOErr))
        /\ loadErr' = Trace(IOErr)
        /\ pc' = "deferStore"
        /\ UNCHANGED allJobs
     \/ \E js \in SnapshotJobLists :
          /\ trace' = Append(trace, Call("GetAllHistoryDDLJobs", 0, 0, Len(js), Nil))
          /\ allJobs' = js
          /\ pc' = "sortAndFilter"
          /\ UNCHANGED loadErr
  /\ UNCHANGED <<other, check, schemaContent, mode, cfg, files, fileSize, startTSO, beginTS, historyDDLs, err, merge,
                 drivers, tiStore, jobs, catalog, ddlLog, execResults>>

\* lines 152-167
SortAndFilter ==
  /\ pc = "sortAndFilter"
  /\ \E sorted \in SortSlice(allJobs) :
       /\ allJobs' = sorted
       /\ jobs' = filterJobs(sorted, beginTS)
  /\ pc' = "deferStore"
  /\ UNCHANGED <<other, check, schemaContent, mode, cfg, files, fileSize, startTSO, beginTS, historyDDLs, err, merge,
                 drivers, tiStore, loadErr, catalog, trace, ddlLog, execResults>>

\* the deferred function of lines 138-141
DeferStoreClose ==
  /\ pc = "deferStore"
  /\ tiStore' = "closed"
  /\ drivers' = drivers \ {"tikv"}
  /\ trace' = trace \o <<Call("tiStore.Close", 0, 0, 0, Nil), Call("UnRegister", 0, 0, 0, Nil)>>
  /\ pc' = "loadReturn"
  /\ UNCHANGED <<other, check, schemaContent, mode, cfg, files, fileSize, startTSO, beginTS, historyDDLs, err, merge,
                 allJobs, jobs, loadErr, catalog, ddlLog, execResults>>

\* loadHistoryDDLJobs returns, lines 205-206; its locals are gone
LoadReturn ==
  /\ pc = "loadReturn"
  /\ historyDDLs' = [historyDDLs EXCEPT !.ddlJobs = IF loadErr # Nil THEN <<>> ELSE jobs]
  /\ loadErr' = Annotate(loadErr, "load history ddls")
  /\ allJobs' = <<>>
  /\ jobs' = <<>>
  /\ pc' = "fetchReturn"
  /\ UNCHANGED <<other, check, schemaContent, mode, cfg, files, fileSize, startTSO, beginTS, err, merge, drivers,
                 tiStore, catalog, trace, ddlLog, execResults>>

\* fetchDDLBeforeStartTSO returns: line 208 and lines 88-91
FetchReturn ==
  /\ pc = "fetchReturn"
  /\ mode = "process"
  /\ IF Trace(loadErr) # Nil
     THEN Return(Trace(Trace(loadErr)))
     ELSE pc' = "newMerge" /\ UNCHANGED err
  /\ UNCHANGED <<other, check, schemaContent, mode, cfg, files, fileSize, startTSO, beginTS, historyDDLs, merge,
                 drivers, tiStore, allJobs, jobs, loadErr, catalog, trace, ddlLog,
                 execResults>>

\* ---------------------------------------------------------------- merge
\* lines 92-96
NewMerge ==
  /\ pc = "newMerge"
  /\ \E e \in CallErrs :
       /\ trace' = Append(trace, Call("NewMerge", Len(files), fileSize, 0, e))
       /\ IF e # Nil
          THEN Return(Trace(e)) /\ UNCHANGED merge
          ELSE merge' = "open" /\ pc' = "pass1" /\ UNCHANGED err
  /\ UNCHANGED <<other, check, schemaContent, mode, cfg, files, fileSize, startTSO, beginTS, historyDDLs, drivers,
                 tiStore, allJobs, jobs, loadErr, catalog, ddlLog, execResults>>

\* lines 97-99
ExecutePass1 ==
  /\ pc = "pass1"
  /\ LET r == execute(historyDDLs, catalog)
     IN  /\ catalog' = r.catalog
         /\ ddlLog' = ddlLog \o r.log
         /\ execResults' = Append(execResults, [err |-> r.err, catalog |-> r.catalog, log |-> r.log])
         /\ trace' = Append(trace, Call("execute", 1, 0, 0, r.err))
         /\ IF r.err # Nil THEN Return(r.err) ELSE pc' = "map" /\ UNCHANGED err
  /\ UNCHANGED <<other, check, schemaContent, mode, cfg, files, fileSize, startTSO, beginTS, historyDDLs, merge,
                 drivers, tiStore, allJobs, jobs, loadErr>>

\* What follows merge.Map, lines 101-106.
afterMapNoShortCircuit(r) == IF r.err # Nil THEN "fail" ELSE "pass2"
afterMapToReduce(r) ==
  IF r.err # Nil THEN "fail" ELSE IF r.noEventIsFound THEN "empty" ELSE "reduce"
afterMap(r) ==
  IF r.err # Nil THEN "fail" ELSE IF r.noEventIsFound THEN "empty" ELSE "pass2"

\* lines 100-106
Map ==
  /\ pc = "map"
  /\ \E r \in MapResults :
       /\ trace' = Append(trace, Call("Map", startTSO, cfg.StopTSO, Bit(r.noEventIsFound), r.err))
       /\ CASE afterMap(r) = "fail" -> Return(Trace(r.err))
            [] afterMap(r) = "empty" -> Return(Nil)
            [] OTHER -> pc' = afterMap(r) /\ UNCHANGED err
  /\ UNCHANGED <<other, check, schemaContent, mode, cfg, files, fileSize, startTSO, beginTS, historyDDLs, merge,
                 drivers, tiStore, allJobs, jobs, loadErr, catalog, ddlLog, execResults>>

\* lines 107-109
ExecutePass2 ==
  /\ pc = "pass2"
  /\ LET r == execute(historyDDLs, catalog)
     IN  /\ catalog' = r.catalog
         /\ ddlLog' = ddlLog \o r.log
         /\ execResults' = Append(execResults, [err |-> r.err, catalog |-> r.catalog, log |-> r.log])
         /\ trace' = Append(trace, Call("execute", 2, 0, 0, r.err))
         /\ IF r.err # Nil THEN Return(Trace(r.err)) ELSE pc' = "reduce" /\ UNCHANGED err
  /\ UNCHANGED <<other, check, schemaContent, mode, cfg, files, fileSize, startTSO, beginTS, historyDDLs, merge,
                 drivers, tiStore, allJobs, jobs, loadErr>>

\* line 111
Reduce ==
  /\ pc = "reduce"
  /\ \E e \in ReduceErrs :
       /\ trace' = Append(trace, Call("Reduce", 0, 0, 0, e))
       /\ Return(e)
  /\ UNCHANGED <<other, check, schemaContent, mode, cfg, files, fileSize, startTSO, beginTS, historyDDLs, merge,
                 drivers, tiStore, allJobs, jobs, loadErr, catalog, ddlLog, execResults>>

\* What Process returns once the deferred merge.Close has run: e is the value
\* of the return statement. Process has no named result and the defer is a
\* plain call, so what Close returns is dropped.
errAfterCloseOverrides(e, closeErr) == IF closeErr # Nil THEN closeErr ELSE e
errAfterClose(e, closeErr) == e

\* the deferred call of line 96
DeferMergeClose ==
  /\ pc = "deferClose"
  /\ \E e \in CloseErrs :
       /\ trace' = Append(trace, Call("Close", Bit(cfg.reserveTempDir), 0, 0, e))
       /\ err' = errAfterClose(err, e)
  /\ merge' = "closed"
  /\ pc' = "done"
  /\ UNCHANGED <<other, check, schemaContent, mode, cfg, files, fileSize, startTSO, beginTS, historyDDLs,
                 drivers, tiStore, allJobs, jobs, loadErr, catalog, ddlLog, execResults>>

\* ---------------------------------------------------------------- a second run
\* A second run of loadHistoryDDLJobs in the same process, on the same
\* configuration: the same statements, acting on the same package-level driver
\* registry. Its steps that touch only its own locals are taken together and
\* its job list is left out.
OtherAbsent == [pc |-> "absent", tiStore |-> "none", loadErr |-> Nil, trace |-> <<>>]
OtherVarsUnchanged ==
  UNCHANGED <<check, schemaContent, mode, cfg, pc, files, fileSize, startTSO, beginTS,
              historyDDLs, err, merge, tiStore, allJobs, jobs, loadErr, catalog,
              trace, ddlLog, execResults>>

\* createTiStore, lines 171-178 (the endpoints parse: they are the first run's)
OtherRegisterDriver ==
  /\ other.pc = "register"
  /\ LET e == registerErr(drivers)
     IN  /\ other' = [other EXCEPT !.trace = Append(@, Call("Register", 0, 0, 0, e)),
                                   !.loadErr = Trace(Trace(e)),
                                   !.pc = IF e # Nil THEN "returned" ELSE "storeNew"]
         /\ drivers' = IF e # Nil THEN drivers ELSE drivers \cup {"tikv"}
  /\ OtherVarsUnchanged

\* createTiStore, lines 179-185, and lines 134-141
OtherStoreNew ==
  /\ other.pc = "storeNew"
  /\ \E e \in storeNewErrs(drivers) :
       other' = [other EXCEPT !.trace = Append(@, Call("store.New", 0, 0, 0, e)),
                              !.loadErr = Trace(Trace(e)),
                              !.tiStore = IF e # Nil THEN "none" ELSE "open",
                              !.pc = IF e # Nil THEN "returned" ELSE "load"]
  /\ UNCHANGED drivers
  /\ OtherVarsUnchanged

\* lines 143-165: the snapshot, the enumeration, the sort and the filter
OtherLoadJobs ==
  /\ other.pc = "load"
  /\ \E e \in CallErrs :
       other' = [other EXCEPT !.trace = Append(@, Call("GetAllHistoryDDLJobs", 0, 0, 0, e)),
                              !.loadErr = Trace(e),
                              !.pc = "deferStore"]
  /\ UNCHANGED drivers
  /\ OtherVarsUnchanged

\* the deferred function of lines 138-141
OtherDeferStoreClose ==
  /\ other.pc = "deferStore"
  /\ other' = [other EXCEPT !.trace = @ \o <<Call("tiStore.Close", 0, 0, 0, Nil),
                                             Call("UnRegister", 0, 0, 0, Nil)>>,
                            !.tiStore = "closed",
                            !.pc = "returned"]
  /\ drivers' = drivers \ {"tikv"}
  /\ OtherVarsUnchanged

\* ---------------------------------------------------------------- isAcceptableBinlog
\* lines 129-131
isAcceptableBinlogExclusive(binlog, startTs, endTs) ==
  binlog.CommitTs > startTs /\ (endTs = 0 \/ binlog.CommitTs <= endTs)
isAcceptableBinlog(binlog, startTs, endTs) ==
  binlog.CommitTs >= startTs /\ (endTs = 0 \/ binlog.CommitTs <= endTs)

\* the int64 values put to isAcceptableBinlog: timestamps, and values that are
\* no timestamps (negative ones)
Int64s == (0 - 1)..(MaxTS + 1)
Unchecked == [binlog |-> [CommitTs |-> 0], startTs |-> 0, endTs |-> 0,
              called |-> FALSE, result |-> FALSE]

IsAcceptableBinlog ==
  /\ mode = "acceptable"
  /\ ~check.called
  /\ check' = [check EXCEPT !.called = TRUE,
                            !.result = isAcceptableBinlog(check.binlog, check.startTs,
                                                          check.endTs)]
  /\ UNCHANGED <<other, schemaContent, mode, cfg, pc, files, fileSize, startTSO, beginTS,
                 historyDDLs, err, merge, drivers, tiStore, allJobs, jobs, loadErr,
                 catalog, trace, ddlLog, execResults>>

\* ---------------------------------------------------------------- specifications
InitCommon ==
  /\ files = <<>>
  /\ fileSize = 0
  /\ historyDDLs = EmptyHandler
  /\ err = Nil
  /\ merge = "none"
  /\ tiStore = "none"
  /\ allJobs = <<>>
  /\ jobs = <<>>
  /\ loadErr = Nil
  /\ catalog = EmptyCatalog
  /\ schemaContent = <<>>
  /\ trace = <<>>
  /\ ddlLog = <<>>
  /\ execResults = <<>>

\* A run of Process on a configuration, in a process that has registered no
\* store driver yet.
Init ==
  /\ mode = "process"
  /\ other = OtherAbsent
  /\ check = Unchecked
  /\ drivers = {}
  /\ cfg \in Configs
  /\ pc = "searchFiles"
  /\ startTSO = 0
  /\ beginTS = 0
  /\ InitCommon

Next ==
  \/ SearchFiles
  \/ FilterFiles
  \/ ResolveStart
  \/ FetchDDL
  \/ LoadBaseSchema
  \/ ParseURLs
  \/ RegisterDriver
  \/ StoreNew
  \/ CurrentVersion
  \/ GetSnapshot
  \/ GetAllHistoryDDLJobs
  \/ SortAndFilter
  \/ DeferStoreClose
  \/ LoadReturn
  \/ FetchReturn
  \/ NewMerge
  \/ ExecutePass1
  \/ Map
  \/ ExecutePass2
  \/ Reduce
  \/ DeferMergeClose

Spec == Init /\ [][Next]_vars

\* loadHistoryDDLJobs(beginTS) alone, on a configuration with store endpoints.
\* The "tikv" driver may be registered already: an earlier call that failed in
\* store.New (lines 180-183) leaves it so.
InitResolver ==
  /\ mode = "resolver"
  /\ other = OtherAbsent
  /\ check = Unchecked
  /\ drivers \in SUBSET {"tikv"}
  /\ cfg \in {c \in Configs : /\ c.schemaFile = "" /\ c.PDURLs # ""
                              /\ c.StartTSO = 0 /\ c.StopTSO = 0 /\ ~c.reserveTempDir}
  /\ pc = "createTiStore"
  /\ beginTS \in TS
  /\ startTSO = beginTS
  /\ InitCommon

NextResolver ==
  \/ ParseURLs
  \/ RegisterDriver
  \/ StoreNew
  \/ CurrentVersion
  \/ GetSnapshot
  \/ GetAllHistoryDDLJobs
  \/ SortAndFilter
  \/ DeferStoreClose
  \/ LoadReturn

SpecResolver == InitResolver /\ [][NextResolver]_vars

\* Two runs of loadHistoryDDLJobs at once in a process that has registered no
\* driver, on a configuration whose endpoints parse; their steps interleave
\* freely (nothing in lines 133-186 orders them).
InitConcurrent ==
  /\ mode = "concurrent"
  /\ other = [OtherAbsent EXCEPT !.pc = "register"]
  /\ check = Unchecked
  /\ drivers = {}
  /\ cfg \in {c \in Configs : /\ c.schemaFile = "" /\ c.PDURLs = "pd:2379"
                              /\ c.StartTSO = 0 /\ c.StopTSO = 0 /\ ~c.reserveTempDir}
  /\ pc = "createTiStore"
  /\ startTSO = 0
  /\ beginTS \in TS
  /\ InitCommon

NextConcurrent ==
  \/ NextResolver
  \/ OtherRegisterDriver
  \/ OtherStoreNew
  \/ OtherLoadJobs
  \/ OtherDeferStoreClose

SpecConcurrent == InitConcurrent /\ [][NextConcurrent]_vars

\* isAcceptableBinlog applied once to a binlog and a window
InitAcceptable ==
  /\ mode = "acceptable"
  /\ other = OtherAbsent
  /\ check \in {[Unchecked EXCEPT !.binlog = [CommitTs |-> c], !.startTs = s, !.endTs = t] :
                  c \in Int64s, s \in Int64s, t \in Int64s}
  /\ drivers = {}
  /\ cfg = [StartTSO |-> 0, StopTSO |-> 0, schemaFile |-> "", PDURLs |-> "",
            reserveTempDir |-> FALSE]
  /\ pc = "done"
  /\ startTSO = 0
  /\ beginTS = 0
  /\ InitCommon

NextAcceptable == IsAcceptableBinlog

SpecAcceptable == InitAcceptable /\ [][NextAcceptable]_vars

\* ---------------------------------------------------------------- properties
\* the positions of the trace at which op was called
Calls(op) == {i \in 1..Len(trace) : trace[i].op = op}
Succeeded(i) == trace[i].err = Nil
MergeOps == {"NewMerge", "Map", "Reduce", "Close"}

\* map succeeded and reported that no event of the window was found
MapReportedEmpty ==
  \E i \in Calls("Map") : Succeeded(i) /\ trace[i].ret = 1

\* C1: once map has succeeded and reported that no in-window event was found,
\* Process is returning success, reduce has not been and is never invoked, and
\* the schema history has been executed exactly once (no second DDL pass).
C1_EmptyWindowShortCircuit ==
  MapReportedEmpty =>
    /\ pc \in {"deferClose", "done"}
    /\ err = Nil
    /\ Calls("Reduce") = {}
    /\ Cardinality(Calls("execute")) = 1
    /\ Len(execResults) = 1

C1_Witness == pc = "done" /\ MapReportedEmpty /\ err = Nil

\* shard discovery succeeded and yielded no file
SearchFoundNothing ==
  \E i \in Calls("searchFiles") : Succeeded(i) /\ trace[i].ret = 0

\* C2: when shard discovery succeeds but yields zero files, Process returns a
\* non-nil (NoFilesFound) error, never success.
C2_NoFilesFoundFails ==
  (pc = "done" /\ SearchFoundNothing) => err # Nil

\* window filtering succeeded and kept no file
FilterKeptNothing ==
  \E i \in Calls("filterFiles") : Succeeded(i) /\ trace[i].ret = 0

\* C3: when window filtering succeeds but the filtered shard set is empty,
\* Process returns a non-nil (NoFilesInWindow) error, never success.
C3_NoFilesInWindowFails ==
  (pc = "done" /\ FilterKeptNothing) => err # Nil

MergeOpened == \E i \in Calls("NewMerge") : Succeeded(i)

C5_PhaseOrdering ==
  /\ \A i \in Calls("Map") :
       \E j \in Calls("execute") : j < i /\ trace[j].a = 1 /\ Succeeded(j)
  /\ \A i \in Calls("execute") :
       trace[i].a = 2 => \E j \in Calls("Map") : j < i
  /\ \A i \in Calls("Reduce") :
       \E j \in Calls("Map"), k \in Calls("execute") :
         /\ j < k /\ k < i
         /\ Succeeded(j) /\ trace[j].ret = 0
         /\ trace[k].a = 2 /\ Succeeded(k)
  /\ \A i \in Calls("Close") :
       \A j \in i + 1..Len(trace) : trace[j].op \notin MergeOps

C5_Witness ==
  /\ pc = "done"
  /\ Calls("Reduce") # {}
  /\ Calls("Close") # {}

\* loadHistoryDDLJobs has sorted and filtered and is about to return jobs
\* (allJobs is the snapshot's enumeration, sorted in place)
ResolverDone == pc \in {"deferStore", "loadReturn"} /\ loadErr = Nil

\* C6: the job-based resolver returns a job iff its finishedTS is strictly
\* less than the start: one with finishedTS equal to the start is left out,
\* every enumerated job with a smaller finishedTS is returned exactly once,
\* and leaving jobs out raises no error.
C6_RetainedIffFinishedBefore ==
  /\ ResolverDone =>
       /\ {allJobs[i].ID : i \in 1..Len(allJobs)} = 1..Len(allJobs)
       /\ \A i \in 1..Len(allJobs) :
            Cardinality({k \in 1..Len(jobs) : jobs[k] = allJobs[i]})
              = IF allJobs[i].FinishedTS < beginTS THEN 1 ELSE 0
       /\ Range(jobs) \subseteq Range(allJobs)
  /\ (pc \in {"sortAndFilter", "deferStore", "loadReturn"}
        /\ \E i \in Calls("GetAllHistoryDDLJobs") : Succeeded(i)) => loadErr = Nil

C6_Witness ==
  /\ pc = "loadReturn"
  /\ loadErr = Nil
  /\ \E i \in 1..Len(allJobs) : allJobs[i].FinishedTS = beginTS
  /\ \E i \in 1..Len(allJobs) : allJobs[i].FinishedTS < beginTS
  /\ Len(jobs) = 1

\* C7: whatever the enumeration order, the list the job-based resolver
\* returns is in ascending schemaVersion order.
C7_SortedBySchemaVersion ==
  ResolverDone =>
    \A i, j \in 1..Len(jobs) :
      i < j => jobs[i].SchemaVersion <= jobs[j].SchemaVersion

\* the list returned is in neither job id nor finishedTS order
C7_Witness ==
  /\ pc = "loadReturn"
  /\ loadErr = Nil
  /\ \E i, j \in 1..Len(jobs) :
       /\ i < j
       /\ jobs[i].SchemaVersion < jobs[j].SchemaVersion
       /\ jobs[i].ID > jobs[j].ID
       /\ jobs[i].FinishedTS > jobs[j].FinishedTS

StoreOps == {"NewURLsValue", "Register", "store.New", "CurrentVersion",
             "GetSnapshot", "GetAllHistoryDDLJobs", "tiStore.Close", "UnRegister"}
FetchReturned ==
  pc \in {"fetchReturn", "newMerge", "pass1", "map", "pass2", "reduce",
          "deferClose", "done"} /\ Calls("fetchDDLBeforeStartTSO") # {}

\* C8: with both a schema file and store endpoints configured the file is
\* the only source: no driver is registered, no store opened, no snapshot
\* taken and no job enumerated, and the handler holds the statements of the
\* file, whatever the start.
C8_FileSourceTakesPriority ==
  (cfg.schemaFile # "" /\ cfg.PDURLs # "") =>
    /\ \A i \in 1..Len(trace) : trace[i].op \notin StoreOps
    /\ drivers = {}
    /\ tiStore = "none"
    /\ historyDDLs.ddlJobs = <<>>
    /\ FetchReturned =>
         /\ Calls("ReadFile") # {}
         /\ loadErr = Nil => historyDDLs.ddlSQLs = Split(schemaContent)

C8_Witness ==
  /\ cfg.schemaFile # ""
  /\ cfg.PDURLs = "pd:2379"
  /\ pc = "done"
  /\ startTSO > 0
  /\ Len(historyDDLs.ddlSQLs) = 2

\* the start Process works with: the configured one, or with none configured
\* the first commit timestamp read from the first filtered shard
InferredStart(i) == trace[i].ret
StartInferred ==
  \E i \in Calls("getFirstBinlogCommitTSAndFileSize") : Succeeded(i)

\* C9: with startTSO 0 configured, the effective start is the first commit
\* timestamp of the first filtered shard, and that value goes both to the
\* schema history resolver (whose jobs are those with finishedTS below it)
\* and to map; a non-zero configured startTSO goes to both unchanged and no
\* shard is inspected.
C9_EffectiveStart ==
  /\ cfg.StartTSO # 0 =>
       /\ Calls("getFirstBinlogCommitTSAndFileSize") = {}
       /\ \A i \in Calls("fetchDDLBeforeStartTSO") \cup Calls("Map") :
            trace[i].a = cfg.StartTSO
  /\ cfg.StartTSO = 0 =>
       /\ \A i \in Calls("getFirstBinlogCommitTSAndFileSize") :
            /\ trace[i].a = files[1]
            /\ \A k \in Calls("fetchDDLBeforeStartTSO") \cup Calls("Map") :
                 /\ i < k
                 /\ Succeeded(i)
                 /\ trace[k].a = InferredStart(i)
       /\ Calls("fetchDDLBeforeStartTSO") # {} => StartInferred
  /\ (mode = "process" /\ ResolverDone) =>
       \A i \in Calls("fetchDDLBeforeStartTSO") :
         \A n \in 1..Len(allJobs) :
           (allJobs[n] \in Range(jobs)) <=> (allJobs[n].FinishedTS < trace[i].a)

C9_Witness ==
  /\ cfg.StartTSO = 0
  /\ Len(files) = 2
  /\ \E i \in Calls("Map") : trace[i].a = MaxTS
  /\ Len(historyDDLs.ddlJobs) = 1
  /\ pc = "done"

LoadReturned == pc \in {"loadReturn", "fetchReturn"}

\* C11: once loadHistoryDDLJobs has returned, with or without an error, the
\* "tikv" registration it made is removed and the store it opened is closed.
C11_RegistrationScoped ==
  (LoadReturned /\ \E i \in Calls("Register") : Succeeded(i)) =>
    /\ "tikv" \notin drivers
    /\ tiStore # "open"

\* ---------------------------------------------------------------- close and errors
\* the call at position i is a step of the merge pipeline and it failed
PipelineFailure(i) == trace[i].op \in {"execute", "Map", "Reduce"} /\ trace[i].err # Nil
CloseFailed == \E c \in Calls("Close") : trace[c].err # Nil

CleanupOps == {"tiStore.Close", "UnRegister", "Close"}
\* the step calling at position i failed: its collaborator returned an error,
\* or discovery or filtering yielded no file
StepFailed(i) ==
  /\ trace[i].op \notin CleanupOps
  /\ \/ trace[i].err # Nil
     \/ trace[i].op \in {"searchFiles", "filterFiles"} /\ trace[i].ret = 0
\* e is the error c, possibly annotated
Wraps(e, c) == Len(e) >= Len(c) /\ SubSeq(e, Len(e) - Len(c) + 1, Len(e)) = c

\* C15: once a step of Process has failed, no call of a later step follows
\* (only the release of what is held), the failed call is not made again,
\* and Process returns a non-nil error, which is the error of that failure.
C15_FirstFailureAborts ==
  \A i \in 1..Len(trace) :
    StepFailed(i) =>
      /\ \A j \in (i + 1)..Len(trace) : trace[j].op \in CleanupOps
      /\ pc = "done" => (err # Nil /\ Wraps(err, trace[i].err))

\* ---------------------------------------------------------------- execute
\* ddlHandle refuses the statement
StmtFails(ddl) == ExecuteDDL("", ddl, EmptyCatalog).err # Nil

\* C16: with the schema file as the source, every call of execute applies the
\* statements of the list in list order, each with the empty schema name, up
\* to and including the first one that fails, returns that statement's error
\* and applies nothing after it; when none fails, every statement is applied
\* once and execute returns nil.
C16_FileDDLStopsAtFirstFailure ==
  source(cfg) = "file" =>
    \A n \in 1..Len(execResults) :
      LET L == execResults[n].log
          sq == historyDDLs.ddlSQLs
          k == Len(L)
      IN  /\ k <= Len(sq)
          /\ \A i \in 1..k : L[i] = SQLCall("", sq[i])
          /\ \A i \in 1..(k - 1) : ~StmtFails(sq[i])
          /\ IF execResults[n].err = Nil
             THEN k = Len(sq) /\ (k > 0 => ~StmtFails(sq[k]))
             ELSE /\ k >= 1
                  /\ StmtFails(sq[k])
                  /\ execResults[n].err = ExecuteDDL("", sq[k], EmptyCatalog).err

\* a list of two statements whose first fails: only the first was applied
C16_Witness ==
  /\ source(cfg) = "file"
  /\ Len(historyDDLs.ddlSQLs) = 2
  /\ Len(execResults) = 1
  /\ execResults[1].err # Nil
  /\ Len(execResults[1].log) = 1

\* the catalog the n-th call of execute started from
CatalogBefore(n) == IF n = 1 THEN EmptyCatalog ELSE execResults[n - 1].catalog

NoSourceConfigured == cfg.schemaFile = "" /\ cfg.PDURLs = ""

\* C19: whatever is configured and however the loading ends, the handler never
\* has both ddlSQLs and ddlJobs populated; with neither a schema file nor store
\* endpoints configured both stay empty, and every call of execute calls
\* nothing on ddlHandle and returns nil.
C19_AtMostOneSource ==
  /\ historyDDLs.ddlSQLs = <<>> \/ historyDDLs.ddlJobs = <<>>
  /\ NoSourceConfigured =>
       /\ historyDDLs = EmptyHandler
       /\ \A n \in 1..Len(execResults) :
            execResults[n].log = <<>> /\ execResults[n].err = Nil

\* a whole run with no source configured: execute was called twice on the
\* empty handler
C19_Witness ==
  /\ NoSourceConfigured
  /\ pc = "done"
  /\ Len(execResults) = 2
  /\ err = Nil

\* ---------------------------------------------------------------- open and close
\* NewMerge succeeded at some position before j
OpenedBefore(j) == \E i \in Calls("NewMerge") : i < j /\ Succeeded(i)

\* C20: merge.Close is called at most once, with cfg.reserveTempDir, and only
\* after a NewMerge that succeeded; once Process has returned it has been
\* called exactly once if NewMerge succeeded and not at all otherwise; Map and
\* Reduce are called only on a Merge that was opened and is not closed yet.
C20_OpenClosePairing ==
  /\ Cardinality(Calls("NewMerge")) <= 1
  /\ Cardinality(Calls("Close")) <= 1
  /\ \A c \in Calls("Close") :
       OpenedBefore(c) /\ trace[c].a = Bit(cfg.reserveTempDir)
  /\ \A j \in Calls("Map") \cup Calls("Reduce") :
       OpenedBefore(j) /\ \A c \in Calls("Close") : j < c
  /\ pc = "done" =>
       Cardinality(Calls("Close")) = (IF MergeOpened THEN 1 ELSE 0)

\* Process returned at a failed NewMerge: nothing was closed
C20_Witness ==
  /\ pc = "done"
  /\ \E i \in Calls("NewMerge") : ~Succeeded(i)
  /\ Calls("Close") = {}

\* ---------------------------------------------------------------- concurrent runs
OtherCalls(op) == {i \in 1..Len(other.trace) : other.trace[i].op = op}

\* C12: with two runs at once, neither run's store.Register is refused because
\* the other holds the registration, and the driver is registered whenever a
\* run is between its store.Register and its store.New.
C12_NoRegistrationRace ==
  /\ \A i \in Calls("Register") : trace[i].err = Nil
  /\ \A i \in OtherCalls("Register") : other.trace[i].err = Nil
  /\ (pc = "storeNew" \/ other.pc = "storeNew") => "tikv" \in drivers

\* ---------------------------------------------------------------- isAcceptableBinlog
\* C14: isAcceptableBinlog answers true exactly when CommitTs >= startTs and
\* (endTs is 0 or CommitTs <= endTs): both ends inclusive, 0 for no upper end.
C14_AcceptableIffInWindow ==
  check.called =>
    (check.result <=>
       /\ ~(check.binlog.CommitTs < check.startTs)
       /\ (check.endTs # 0 => ~(check.binlog.CommitTs > check.endTs)))

\* a binlog accepted whose CommitTs meets both ends of the window exactly
C14_Witness ==
  /\ check.called
  /\ check.result
  /\ check.binlog.CommitTs = check.startTs
  /\ check.binlog.CommitTs = check.endTs
  /\ check.endTs # 0

====
